---- MODULE Spec2Model ----
(***************************************************************************)
(* Security Sentinel (packages/security-sentinel): the scan orchestration  *)
(* engine.  runSecurityScan (src/index.ts) runs one tier: runScan          *)
(* (lib/scanner.ts), runRecon (lib/recon.ts), runDailyTools and            *)
(* runWeeklyTools (lib/tools.ts); builds the report, diffs it against the  *)
(* latest stored report, saves it and applies the alert policy.            *)
(*                                                                         *)
(* A ScanResult keeps the fields the engine reads: id, category, pass,     *)
(* severity, compliance (name, details and evidence are free text).        *)
(* A result an adapter returns alone (checkLocalProcessAuth,               *)
(* checkRateLimit) is a one-element list: runScan pushes it as it pushes   *)
(* the elements of a list.                                                 *)
(***************************************************************************)
EXTENDS Integers, Sequences, FiniteSets, TLC

\* ---------------------------------------------------------------- bounds
\* Number of invocations of runSecurityScan in one behaviour.
MaxRuns == 2
\* Number of adapters that deviate (fail a check, throw, miss their tool)
\* from an all-passing run, per invocation.
MaxDeviations == 1
\* Number of check groups of each stage whose outcome varies; the groups
\* behind them in the stage's list always fulfil with passing results.
VaryPerStage == 1
\* Length of the result lists drawn as inputs of diffReports.
MaxLen == 3
\* Number of programs absent from the PATH a tool wrapper is called under.
MaxAbsent == 2

\* ------------------------------------------------------------ small helpers
Null == [kind |-> "null"]

Range(s) == {s[i] : i \in 1..Len(s)}

RECURSIVE Concat(_)
\* [].concat(...lists): the lists of a list, joined in order
Concat(lists) ==
  IF lists = <<>> THEN <<>> ELSE Head(lists) \o Concat(Tail(lists))

SelectPass(results) == SelectSeq(results, LAMBDA r : r.pass)
\* A slip: the failed count taken as the count of critical and high results.
SelectFailSevere(results) ==
  SelectSeq(results, LAMBDA r : ~r.pass /\ r.severity \in {"critical", "high"})

SelectFail(results) == SelectSeq(results, LAMBDA r : ~r.pass)

Ids(results) == {results[i].id : i \in 1..Len(results)}

\* ------------------------------------------------------------ result model
Severities == {"critical", "high", "medium", "low", "info"}

\* A slip: ok() keeps the severity its caller passed.
okRaw(id, category, pass, severity, compliance) ==
  [id |-> id, category |-> category, pass |-> pass,
   severity |-> severity,
   compliance |-> compliance]

ok(id, category, pass, severity, compliance) ==
  [id |-> id, category |-> category, pass |-> pass,
   severity |-> IF pass THEN "info" ELSE severity,
   compliance |-> compliance]

\* ------------------------------------------------------------ configuration
\* config.ts: WEBHOOK_ENDPOINTS is parsed once, when the process starts, from
\* a comma-separated list of "/path:METHOD:auth_type"; its default is
\* "/webhook:POST:signature".  DISABLED_ENDPOINTS defaults to "" (no disabled
\* endpoint is probed).
VARIABLE endpoints

Endpoint(path, method) == [path |-> path, method |-> method]

DefaultEndpoints == <<Endpoint("/webhook", "POST")>>

\* The endpoint lists the model is run with: the default, and one path
\* listed with two methods.
EndpointConfigs ==
  {DefaultEndpoints,
   <<Endpoint("/webhook", "GET"), Endpoint("/webhook", "POST")>>}

DISABLED_ENDPOINTS == <<>>

\* checkWebhookAuth's id of an endpoint:
\* "auth_" + path.replace(/\//g, "_").replace(/^_/, ""); the method is no
\* part of it.
AuthId(path) ==
  CASE path = "/webhook" -> "auth_webhook"

\* ------------------------------------------------------------ check groups
\* The groups of each stage, in the order the code lists them.
AuthGroups ==
  <<"checkWebhookAuth">>
  \o (IF Len(DISABLED_ENDPOINTS) > 0 THEN <<"checkDisabledEndpoints">> ELSE <<>>)
  \o <<"checkLocalProcessAuth">>

RateGroups == <<"checkRateLimit">>

HourlyGroups ==
  <<"checkHeaderDisclosure", "checkSecurityHeaders", "checkTLS", "checkWebApp",
    "checkLocalSecurity", "checkAPICredentials", "checkTokenFreshness",
    "checkInputValidation", "checkBackups">>

SshGroups == <<"checkVPSInternal">>

ReconGroups ==
  <<"checkShodan", "checkCertTransparency", "checkDNS", "checkDependencies">>

DailyToolGroups ==
  <<"runNmap", "runNuclei", "runTruffleHog", "runTrivy", "runSemgrep",
    "runGitleaks", "runGrype", "runCheckdmarc", "runHttpx", "runLynis">>

WeeklyToolGroups == <<"runTestSSL", "runSSLyze">>

Stages ==
  <<AuthGroups, RateGroups, HourlyGroups, SshGroups, ReconGroups,
    DailyToolGroups, WeeklyToolGroups>>

AllGroups == UNION {Range(Stages[i]) : i \in 1..Len(Stages)}

\* One check of a group: the arguments its ok() call passes besides pass.
Check(id, category, severity, compliance) ==
  [id |-> id, category |-> category, severity |-> severity,
   compliance |-> compliance]

\* The checks of each group, in the order the group runs them.
\* checkWebhookAuth has one check per configured endpoint; checkVPSInternal,
\* whose sub-checks run in sequence over SSH, is represented by its first
\* three; every other group by its first check.
ChecksOf(g) ==
  CASE g = "checkWebhookAuth" ->
         [i \in 1..Len(endpoints) |->
            Check(AuthId(endpoints[i].path), "EXTERNAL_AUTH", "critical",
                  <<"SOC2:CC6.1", "PCI:8.3", "HIPAA:164.312(d)">>)]
    [] g = "checkDisabledEndpoints" ->
         [i \in 1..Len(DISABLED_ENDPOINTS) |->
            Check(DISABLED_ENDPOINTS[i], "EXTERNAL_AUTH", "high",
                  <<"SOC2:CC6.1", "PCI:7.1">>)]
    [] g = "checkLocalProcessAuth" ->
         <<Check("auth_local_process", "LOCAL", "critical",
                 <<"SOC2:CC6.1", "PCI:8.3", "HIPAA:164.312(d)">>)>>
    [] g = "checkRateLimit" ->
         <<Check("rate_limit", "EXTERNAL_RATE", "high",
                 <<"SOC2:CC6.1", "PCI:6.4", "HIPAA:164.312(a)">>)>>
    [] g = "checkHeaderDisclosure" ->
         <<Check("header_server", "EXTERNAL_HEADERS", "medium",
                 <<"SOC2:CC7.1", "PCI:2.2">>)>>
    [] g = "checkSecurityHeaders" ->
         <<Check("header_x_frame_options", "SECURITY_HEADERS", "medium",
                 <<"SOC2:CC6.6", "PCI:6.4">>)>>
    [] g = "checkTLS" ->
         <<Check("tls_valid", "TLS", "critical",
                 <<"SOC2:CC6.6", "HIPAA:164.312(e)", "PCI:2.2">>)>>
    [] g = "checkWebApp" ->
         <<Check("webapp_stack_trace", "WEBAPP", "medium",
                 <<"SOC2:CC7.1", "PCI:2.2">>)>>
    [] g = "checkLocalSecurity" ->
         <<Check("local_gateway_entropy", "LOCAL", "high",
                 <<"SOC2:CC6.2", "PCI:8.3", "HIPAA:164.312(d)">>)>>
    [] g = "checkAPICredentials" ->
         <<Check("api_convex", "API_CREDS", "high", <<"SOC2:CC7.1">>)>>
    [] g = "checkTokenFreshness" ->
         <<Check("token_ms365", "TOKEN_ROTATION", "high",
                 <<"SOC2:CC6.2", "PCI:8.6">>)>>
    [] g = "checkInputValidation" ->
         <<Check("fuzz_path_traversal", "INPUT_VALIDATION", "high",
                 <<"SOC2:CC6.1", "PCI:6.4", "HIPAA:164.312(a)">>)>>
    [] g = "checkBackups" ->
         <<Check("backup_git_freshness", "BACKUP", "medium",
                 <<"SOC2:CC7.1", "PCI:10.3">>)>>
    [] g = "checkVPSInternal" ->
         <<Check("vps_ssh_root", "VPS_SSH", "critical",
                 <<"SOC2:CC6.1", "SOC2:CC6.2", "PCI:8.3", "HIPAA:164.312(a)">>),
           Check("vps_ssh_password", "VPS_SSH", "high",
                 <<"SOC2:CC6.1", "SOC2:CC6.2", "PCI:8.3", "HIPAA:164.312(d)">>),
           Check("vps_firewall", "VPS_FIREWALL", "high",
                 <<"SOC2:CC6.6", "PCI:1.3", "HIPAA:164.312(e)">>)>>
    [] g = "checkShodan" ->
         <<Check("recon_shodan_ports", "RECON", "high",
                 <<"SOC2:CC6.6", "PCI:1.3", "PCI:11.3">>)>>
    [] g = "checkCertTransparency" ->
         <<Check("recon_crtsh_certs", "RECON", "info",
                 <<"SOC2:CC7.1", "PCI:2.2">>)>>
    [] g = "checkDNS" ->
         <<Check("recon_dns_a", "RECON", "critical",
                 <<"SOC2:CC6.6", "HIPAA:164.312(e)">>)>>
    [] g = "checkDependencies" ->
         <<Check("deps_osv_critical", "DEPS", "critical",
                 <<"SOC2:CC7.1", "PCI:6.4", "PCI:11.3", "HIPAA:164.308(a)(1)">>)>>
    [] g = "runNmap" ->
         <<Check("ports_nmap", "PORTS", "medium", <<"PCI:11.3">>)>>
    [] g = "runNuclei" ->
         <<Check("vuln_nuclei_critical", "VULN", "critical",
                 <<"SOC2:CC7.1", "PCI:11.3", "PCI:6.4", "HIPAA:164.308(a)(1)">>)>>
    [] g = "runTruffleHog" ->
         <<Check("secrets_trufflehog_verified", "SECRETS", "critical",
                 <<"SOC2:CC6.1", "SOC2:CC6.2", "PCI:2.2", "PCI:8.6", "HIPAA:164.312(a)">>)>>
    [] g = "runTrivy" ->
         <<Check("deps_trivy_critical", "DEPS", "critical",
                 <<"SOC2:CC7.1", "PCI:6.4", "PCI:11.3", "HIPAA:164.308(a)(1)">>)>>
    [] g = "runSemgrep" ->
         <<Check("sast_semgrep_error", "SAST", "high",
                 <<"SOC2:CC7.1", "PCI:6.4", "PCI:6.5">>)>>
    [] g = "runGitleaks" ->
         <<Check("secrets_gitleaks_leaks", "SECRETS", "critical",
                 <<"SOC2:CC6.1", "SOC2:CC6.2", "PCI:2.2", "PCI:8.6", "HIPAA:164.312(a)">>)>>
    [] g = "runGrype" ->
         <<Check("deps_grype_critical", "DEPS", "critical",
                 <<"SOC2:CC7.1", "PCI:6.4", "PCI:11.3", "HIPAA:164.308(a)(1)">>)>>
    [] g = "runCheckdmarc" ->
         <<Check("email_spf", "EMAIL", "medium", <<"SOC2:CC6.6", "PCI:2.2">>)>>
    [] g = "runHttpx" ->
         <<Check("recon_httpx_status", "RECON", "high",
                 <<"SOC2:CC7.1", "PCI:11.3">>)>>
    [] g = "runLynis" ->
         <<Check("host_lynis_hardening", "HOST", "high",
                 <<"SOC2:CC6.1", "SOC2:CC6.6", "PCI:2.2", "HIPAA:164.308(a)(1)">>)>>
    [] g = "runTestSSL" ->
         <<Check("tls_deep_protocols", "TLS_DEEP", "high",
                 <<"SOC2:CC6.6", "HIPAA:164.312(e)", "PCI:2.2">>)>>
    [] g = "runSSLyze" ->
         <<Check("tls_sslyze_deprecated", "TLS_DEEP", "high",
                 <<"SOC2:CC6.6", "HIPAA:164.312(e)", "PCI:2.2">>)>>

\* The one result a wrapper returns when it cannot run at all: its tool is
\* not installed (toolInstalled), or, for runNmap, SSH is not configured.
UnavailableOf(g) ==
  CASE g = "runNmap" -> Check("ports_nmap", "PORTS", "low", <<"PCI:11.3">>)
    [] g = "runNuclei" -> Check("vuln_nuclei", "VULN", "low", <<"PCI:11.3">>)
    [] g = "runTruffleHog" ->
         Check("secrets_trufflehog", "SECRETS", "low", <<"SOC2:CC6.1">>)
    [] g = "runTrivy" -> Check("deps_trivy", "DEPS", "low", <<"PCI:11.3">>)
    [] g = "runSemgrep" -> Check("sast_semgrep", "SAST", "low", <<"SOC2:CC7.1">>)
    [] g = "runGitleaks" ->
         Check("secrets_gitleaks", "SECRETS", "low", <<"SOC2:CC6.1">>)
    [] g = "runGrype" -> Check("deps_grype", "DEPS", "low", <<"PCI:11.3">>)
    [] g = "runCheckdmarc" ->
         Check("email_checkdmarc", "EMAIL", "low", <<"SOC2:CC6.6">>)
    [] g = "runHttpx" -> Check("recon_httpx", "RECON", "low", <<"SOC2:CC7.1">>)
    [] g = "runLynis" -> Check("host_lynis", "HOST", "low", <<"SOC2:CC6.1">>)
    [] g = "runTestSSL" -> Check("tls_deep", "TLS_DEEP", "low", <<"PCI:2.2">>)
    [] g = "runSSLyze" -> Check("tls_sslyze", "TLS_DEEP", "low", <<"PCI:2.2">>)

ToolGroups == Range(DailyToolGroups) \cup Range(WeeklyToolGroups)

\* The result runScan pushes when checkVPSInternal throws.
SshConnectFailure ==
  ok("vps_ssh_connect", "VPS_SSH", FALSE, "high", <<"SOC2:CC7.1">>)

\* ------------------------------------------------------- adapter behaviour
\* What the adapters do in one run (the target's state and the faults of the
\* run): the groups that throw, the checks whose condition fails (a check is
\* named by its group and its position in the group), the wrappers whose
\* tool is unavailable, and the number of sub-checks a throwing group
\* completes before it throws.
Min(a, b) == IF a < b THEN a ELSE b

\* The sub-results a group holds in its local list after n sub-checks.
Produced(g, failing, n) ==
  [i \in 1..Min(n, Len(ChecksOf(g))) |->
     LET c == ChecksOf(g)[i]
     IN  ok(c.id, c.category, <<g, i>> \notin failing, c.severity, c.compliance)]

\* One adapter call, settled: fulfilled with its results, or rejected.  A
\* rejected call's local list (partial) is unreachable to the caller.
Adapter(g, e) ==
  IF g \in e.thrown
    THEN [status |-> "rejected", partial |-> Produced(g, e.failing, e.done)]
  ELSE IF g \in e.missing
    THEN LET c == UnavailableOf(g)
         IN  [status |-> "fulfilled",
              value |-> <<ok(c.id, c.category, FALSE, c.severity, c.compliance)>>]
  ELSE [status |-> "fulfilled",
        value |-> Produced(g, e.failing, Len(ChecksOf(g)))]

\* Promise.allSettled over the adapters of a stage.
AllSettled(groups, e) == [i \in 1..Len(groups) |-> Adapter(groups[i], e)]

\* A slip: the stage awaited all-or-nothing, so that one rejected call
\* leaves the stage without any result.
PushAllOrNothing(results, settled) ==
  IF \E i \in 1..Len(settled) : settled[i].status = "rejected" THEN results
  ELSE results \o Concat([i \in 1..Len(settled) |-> settled[i].value])

\* The loop after each allSettled: the results of the fulfilled calls, in
\* order; a rejected call adds nothing.
PushFulfilled(results, settled) ==
  results \o Concat([i \in 1..Len(settled) |->
                       IF settled[i].status = "fulfilled"
                         THEN settled[i].value ELSE <<>>])

\* try { results.push(await checkRateLimit()) } catch {}
PushRateLimit(results, e) ==
  LET s == Adapter("checkRateLimit", e)
  IN  IF s.status = "fulfilled" THEN results \o s.value ELSE results

\* try { results.push(...await checkVPSInternal()) }
\* catch { results.push(ok("vps_ssh_connect", ...)) }
PushVPSInternal(results, e) ==
  LET s == Adapter("checkVPSInternal", e)
  IN  IF s.status = "fulfilled" THEN results \o s.value
      ELSE Append(results, SshConnectFailure)

runRecon(e) == PushFulfilled(<<>>, AllSettled(ReconGroups, e))
runDailyTools(e) == PushFulfilled(<<>>, AllSettled(DailyToolGroups, e))
runWeeklyTools(e) == PushFulfilled(<<>>, AllSettled(WeeklyToolGroups, e))

\* --------------------------------------------------------------- rollup
Frameworks == <<"SOC2", "PCI-DSS", "HIPAA">>

\* ctrl.startsWith("SOC2:"), ctrl.startsWith("PCI:"), ctrl.startsWith("HIPAA:")
\* over the control tags the checks carry.
TagsOf(fw) ==
  CASE fw = "SOC2" -> {"SOC2:CC6.1", "SOC2:CC6.2", "SOC2:CC6.6", "SOC2:CC7.1",
                       "SOC2:CC7.2", "SOC2:CC8.1"}
    [] fw = "PCI-DSS" -> {"PCI:1.3", "PCI:2.2", "PCI:6.4", "PCI:6.5", "PCI:7.1",
                          "PCI:8.3", "PCI:8.6", "PCI:10.2", "PCI:10.3",
                          "PCI:11.3", "PCI:11.4"}
    [] fw = "HIPAA" -> {"HIPAA:164.312(a)", "HIPAA:164.312(c)",
                        "HIPAA:164.312(d)", "HIPAA:164.312(e)",
                        "HIPAA:164.308(a)(1)", "HIPAA:164.308(a)(5)"}

\* A slip: the affected list returned as accumulated.
DedupNone(list) == list

RECURSIVE Dedup(_)
\* [...new Set(list)]: first occurrences, in order
Dedup(list) ==
  IF list = <<>> THEN <<>>
  ELSE LET init == Dedup(SubSeq(list, 1, Len(list) - 1))
           last == list[Len(list)]
       IN  IF last \in Range(init) THEN init ELSE Append(init, last)

\* A slip: a later failure of a lower severity sets warn whatever the
\* status is.
StatusAfterLastWins(status, severity) ==
  IF severity \in {"critical", "high"} THEN "fail" ELSE "warn"

\* if (severity === "critical" || severity === "high") status = "fail";
\* else if (status !== "fail") status = "warn";
StatusAfter(status, severity) ==
  IF severity \in {"critical", "high"} THEN "fail"
  ELSE IF status # "fail" THEN "warn" ELSE status

RECURSIVE RollupStatus(_, _, _)
\* The status of one framework after the loop over results from index i on.
RollupStatus(results, fw, status) ==
  IF results = <<>> THEN status
  ELSE LET r == Head(results)
           hits == {j \in 1..Len(r.compliance) : r.compliance[j] \in TagsOf(fw)}
           next == IF r.pass \/ hits = {} THEN status
                   ELSE StatusAfter(status, r.severity)
       IN  RollupStatus(Tail(results), fw, next)

RollupAffected(results, fw) ==
  Dedup(Concat([i \in 1..Len(results) |->
    IF results[i].pass THEN <<>>
    ELSE LET r == results[i]
             tags == SelectSeq(r.compliance, LAMBDA t : t \in TagsOf(fw))
         IN  [j \in 1..Len(tags) |-> <<r.id, tags[j]>>]]))

buildComplianceSummaryFromResults(results) ==
  [fw \in Range(Frameworks) |->
     [affected |-> RollupAffected(results, fw),
      status |-> RollupStatus(results, fw, "pass")]]

\* scanner.ts keeps its own builder for runScan's report: one pass over the
\* results and their tags, updating the three frameworks as it goes.
ApplyTag(fws, r, ctrl) ==
  [fw \in DOMAIN fws |->
     IF ctrl \in TagsOf(fw)
       THEN [affected |-> Append(fws[fw].affected, <<r.id, ctrl>>),
             status |-> StatusAfter(fws[fw].status, r.severity)]
       ELSE fws[fw]]

RECURSIVE FoldTags(_, _, _)
FoldTags(fws, r, tags) ==
  IF tags = <<>> THEN fws
  ELSE FoldTags(ApplyTag(fws, r, Head(tags)), r, Tail(tags))

RECURSIVE FoldResults(_, _)
FoldResults(fws, results) ==
  IF results = <<>> THEN fws
  ELSE LET r == Head(results)
       IN  FoldResults(IF r.pass THEN fws ELSE FoldTags(fws, r, r.compliance),
                       Tail(results))

buildComplianceSummary(results) ==
  LET f == FoldResults([fw \in Range(Frameworks) |->
                          [affected |-> <<>>, status |-> "pass"]], results)
  IN  [fw \in DOMAIN f |->
         [affected |-> Dedup(f[fw].affected), status |-> f[fw].status]]

\* ------------------------------------------------------------------- diff
\* A value read back from a report file is a JSON value: Null, an object
\* [kind |-> "object", fields |-> record], a string or an array
\* [kind |-> "array", items |-> list].  The items of a results array are
\* result records or Null.
IsNull(v) == v = Null

\* r.id / r.pass on an item of an array: a TypeError when the item is null.
Touchable(items) == \A i \in 1..Len(items) : ~IsNull(items[i])

\* previous?.results || null
ResultsOrNull(previous) ==
  IF IsNull(previous) THEN Null
  ELSE IF previous.kind # "object" THEN Null
  ELSE IF "results" \notin DOMAIN previous.fields THEN Null
  ELSE previous.fields.results

\* diffReports throws a TypeError: previous.map is not a function, or an
\* item of previous is null.
DiffThrows(previous) ==
  /\ ~IsNull(previous)
  /\ \/ previous.kind # "array"
     \/ ~Touchable(previous.items)

\* new Map(list.map(r => [r.id, r])).get(id): the last entry with the id.
MapGet(list, id) ==
  LET hits == {i \in 1..Len(list) : list[i].id = id}
  IN  IF hits = {} THEN Null
      ELSE list[CHOOSE i \in hits : \A j \in hits : j <= i]

\* A slip: resolved requires the check to be present and passing now, so a
\* failure whose check is gone is never resolved.
diffReportsNoAbsent(current, previous) ==
  IF IsNull(previous)
    THEN [new_failures |-> SelectFail(current),
          resolved |-> <<>>,
          persistent_failures |-> <<>>]
  ELSE
    LET prev == previous.items
        PrevFailed(r) == LET q == MapGet(prev, r.id) IN ~IsNull(q) /\ ~q.pass
        CurrPassed(r) == LET c == MapGet(current, r.id) IN ~IsNull(c) /\ c.pass
    IN  [new_failures |->
           SelectSeq(current, LAMBDA r : ~r.pass /\ ~PrevFailed(r)),
         resolved |->
           SelectSeq(prev, LAMBDA r : ~r.pass /\ CurrPassed(r)),
         persistent_failures |->
           SelectSeq(current, LAMBDA r : ~r.pass /\ PrevFailed(r))]

\* A slip: without a previous report, every current result counts as new.
diffReportsAllNew(current, previous) ==
  IF IsNull(previous)
    THEN [new_failures |-> current,
          resolved |-> <<>>,
          persistent_failures |-> <<>>]
  ELSE
    LET prev == previous.items
        PrevFailed(r) == LET q == MapGet(prev, r.id) IN ~IsNull(q) /\ ~q.pass
        CurrPassedOrGone(r) == LET c == MapGet(current, r.id) IN IsNull(c) \/ c.pass
    IN  [new_failures |->
           SelectSeq(current, LAMBDA r : ~r.pass /\ ~PrevFailed(r)),
         resolved |->
           SelectSeq(prev, LAMBDA r : ~r.pass /\ CurrPassedOrGone(r)),
         persistent_failures |->
           SelectSeq(current, LAMBDA r : ~r.pass /\ PrevFailed(r))]

\* diffReports(current, previous), previous Null or an array it can read.
diffReports(current, previous) ==
  IF IsNull(previous)
    THEN [new_failures |-> SelectFail(current),
          resolved |-> <<>>,
          persistent_failures |-> <<>>]
  ELSE
    LET prev == previous.items
        PrevFailed(r) == LET q == MapGet(prev, r.id) IN ~IsNull(q) /\ ~q.pass
        CurrPassedOrGone(r) == LET c == MapGet(current, r.id) IN IsNull(c) \/ c.pass
    IN  [new_failures |->
           SelectSeq(current, LAMBDA r : ~r.pass /\ ~PrevFailed(r)),
         resolved |->
           SelectSeq(prev, LAMBDA r : ~r.pass /\ CurrPassedOrGone(r)),
         persistent_failures |->
           SelectSeq(current, LAMBDA r : ~r.pass /\ PrevFailed(r))]

NoDiff == [new_failures |-> <<>>, resolved |-> <<>>, persistent_failures |-> <<>>]

\* ------------------------------------------------------------ report store
\* The store maps file names to contents.  Timestamps and file names are
\* sequences of characters; a file name stands without its ".json" ending,
\* which every file getLastReport considers has.

\* The characters of timestamps and file names, in code-unit order.
Chars == <<"-", ".", "0", "1", "2", "3", "4", "5", "6", "7", "8", "9", ":">>

Code(c) == CHOOSE i \in 1..Len(Chars) : Chars[i] = c

Digit(n) == Chars[n + 3]

\* new Date().toISOString() at time t: fields of fixed width, zero-padded.
toISOString(t) == <<Digit(t \div 10), ":", Digit(t % 10)>>

\* report.timestamp.replace(/[:.]/g, "-")
FileName(timestamp) ==
  [i \in 1..Len(timestamp) |->
     IF timestamp[i] \in {":", "."} THEN "-" ELSE timestamp[i]]

\* Array.prototype.sort's default order on strings: a sorts before b.
LexLess(a, b) ==
  \E k \in 1..(Len(b)) :
    /\ \A i \in 1..(k - 1) : i <= Len(a) /\ a[i] = b[i]
    /\ \/ k = Len(a) + 1
       \/ k <= Len(a) /\ Code(a[k]) < Code(b[k])

\* A slip: files[0], the first name of the sorted listing.
LastNameFirst(st) ==
  CHOOSE n \in DOMAIN st : \A m \in DOMAIN st : m = n \/ LexLess(n, m)

\* files[files.length - 1] of the sorted listing.
LastName(st) ==
  CHOOSE n \in DOMAIN st : \A m \in DOMAIN st : m = n \/ LexLess(m, n)
\* A content is unreadable, or text that is or is not JSON.
Unreadable == [kind |-> "unreadable"]
InvalidJson == [kind |-> "text", valid |-> FALSE]
JsonText(v) == [kind |-> "text", valid |-> TRUE, value |-> v]

Array(items) == [kind |-> "array", items |-> items]
Object(fields) == [kind |-> "object", fields |-> fields]

\* JSON.stringify(report): a field whose value is undefined is left out.
Stringify(report) ==
  LET base == [timestamp |-> report.timestamp,
               total |-> report.total,
               passed |-> report.passed,
               failed |-> report.failed,
               results |-> Array(report.results),
               compliance_summary |-> report.compliance_summary,
               mode |-> report.mode]
  IN  JsonText(Object(IF report.ai_summary = "undefined" THEN base
                      ELSE base @@ [ai_summary |-> report.ai_summary]))

\* saveReport: writeFile(join(LOGS_DIR, filename), JSON.stringify(report))
saveReport(st, report) ==
  [n \in DOMAIN st \cup {FileName(report.timestamp)} |->
     IF n = FileName(report.timestamp) THEN Stringify(report) ELSE st[n]]

\* getLastReport: the content of the greatest file name, parsed; null when
\* there is no file or when reading or parsing throws.
getLastReport(st) ==
  IF DOMAIN st = {} THEN Null
  ELSE LET content == st[LastName(st)]
       IN  IF content.kind = "unreadable" THEN Null
           ELSE IF ~content.valid THEN Null
           ELSE content.value

\* Files the store may hold before the first run that are not reports this
\* program wrote whole: unreadable, cut short, or JSON of another shape.
ForeignContents ==
  {Unreadable,
   InvalidJson,
   JsonText(Object([mode |-> "scan"])),
   JsonText(Object([mode |-> "scan", results |-> [kind |-> "string"]])),
   JsonText(Object([mode |-> "scan", results |-> Array(<<Null>>)]))}

\* --------------------------------------------------------------- alerting
\* A slip: the alert is held back only when the report has no failure.
AlertSuppressedWhenClean(report, d) ==
  /\ \A i \in 1..Len(report.results) : report.results[i].pass
  /\ d.new_failures = <<>>

\* A slip: the alert is held back whenever the diff has no new failure.
AlertSuppressedNoNew(report, d) == d.new_failures = <<>>

\* formatTelegramAlert returns null (no alert) or the alert text.
AlertSuppressed(report, d) ==
  /\ \A i \in 1..Len(report.results) :
       report.results[i].pass \/ report.results[i].severity \notin {"critical", "high"}
  /\ d.new_failures = <<>>

\* ------------------------------------------------------------------ tiers
Modes == {"scan", "hourly", "daily", "deep"}

\* runSecurityScan's tier conditions: if (mode !== "scan") runRecon;
\* if (mode === "daily" || mode === "deep") runDailyTools;
\* if (mode === "deep") runWeeklyTools.
WithRecon(m) == m # "scan"

\* A slip: the daily tools run in the daily tier only.
WithDailyToolsDailyOnly(m) == m = "daily"

WithDailyTools(m) == m \in {"daily", "deep"}

WithWeeklyTools(m) == m = "deep"

\* The groups a run of the mode invokes.
GroupsOfMode(m) ==
  Range(AuthGroups) \cup Range(RateGroups) \cup Range(HourlyGroups)
  \cup Range(SshGroups)
  \cup (IF WithRecon(m) THEN Range(ReconGroups) ELSE {})
  \cup (IF WithDailyTools(m) THEN Range(DailyToolGroups) ELSE {})
  \cup (IF WithWeeklyTools(m) THEN Range(WeeklyToolGroups) ELSE {})

\* runScan's result list, whatever tier it is called with.
runScan(e) ==
  PushVPSInternal(
    PushFulfilled(
      PushRateLimit(PushFulfilled(<<>>, AllSettled(AuthGroups, e)), e),
      AllSettled(HourlyGroups, e)),
    e)

\* runSecurityScan's allResults for a mode, the adapters behaving as e.
ResultsOfMode(m, e) ==
  runScan(e)
  \o (IF WithRecon(m) THEN runRecon(e) ELSE <<>>)
  \o (IF WithDailyTools(m) THEN runDailyTools(e) ELSE <<>>)
  \o (IF WithWeeklyTools(m) THEN runWeeklyTools(e) ELSE <<>>)

\* The groups whose outcome the model varies.
Varying ==
  UNION {{Stages[i][j] : j \in 1..Min(VaryPerStage, Len(Stages[i]))} :
           i \in 1..Len(Stages)}

ChecksIn(g) == {<<g, i>> : i \in 1..Len(ChecksOf(g))}

MaxChecks(gs) ==
  IF gs = {} THEN 0
  ELSE LET g == CHOOSE x \in gs : \A y \in gs : Len(ChecksOf(y)) <= Len(ChecksOf(x))
       IN  Len(ChecksOf(g))

NoBehaviour == [thrown |-> {}, failing |-> {}, missing |-> {}, done |-> 0]

\* The behaviours that deviate from b by one more thrown group, failing check
\* or unavailable tool among the groups V.
OneMore(b, V) ==
  {[b EXCEPT !.thrown = @ \cup {g}] :
     g \in {x \in V \ (b.thrown \cup b.missing) : ChecksIn(x) \cap b.failing = {}}}
  \cup {[b EXCEPT !.failing = @ \cup {c}] :
           c \in {x \in UNION {ChecksIn(g) : g \in V \ (b.thrown \cup b.missing)} :
                    x \notin b.failing}}
  \cup {[b EXCEPT !.missing = @ \cup {g}] :
           g \in {x \in (V \cap ToolGroups) \ (b.thrown \cup b.missing) :
                    ChecksIn(x) \cap b.failing = {}}}

RECURSIVE Deviating(_, _)
Deviating(k, V) ==
  IF k = 0 THEN {NoBehaviour}
  ELSE LET B == Deviating(k - 1, V)
       IN  B \cup UNION {OneMore(b, V) : b \in B}

\* The adapter behaviours of one run of the mode: at most MaxDeviations
\* deviations from the all-pass run.
Behaviours(m) ==
  UNION {{[b EXCEPT !.done = d] : d \in 0..MaxChecks(b.thrown)} :
           b \in Deviating(MaxDeviations, Varying \cap GroupsOfMode(m))}

\* ------------------------------------------------------ the tool wrappers
\* The programs the wrappers spawn through runCLI.
Programs ==
  {"ssh", "nuclei", "trufflehog", "trivy", "semgrep", "gitleaks", "grype",
   "checkdmarc", "httpx", "testssl.sh", "sslyze"}

\* The program each wrapper runs through runCLI.  runNmap reads the
\* listening ports over SSH, runLynis runs lynis on the VPS over SSH, and
\* runHttpx pipes its targets to httpx in a shell.
ProgramOf(g) ==
  CASE g = "runNmap" -> "ssh"
    [] g = "runNuclei" -> "nuclei"
    [] g = "runTruffleHog" -> "trufflehog"
    [] g = "runTrivy" -> "trivy"
    [] g = "runSemgrep" -> "semgrep"
    [] g = "runGitleaks" -> "gitleaks"
    [] g = "runGrype" -> "grype"
    [] g = "runCheckdmarc" -> "checkdmarc"
    [] g = "runHttpx" -> "httpx"
    [] g = "runLynis" -> "ssh"
    [] g = "runTestSSL" -> "testssl.sh"
    [] g = "runSSLyze" -> "sslyze"

\* toolInstalled(name): `which name` succeeds.
toolInstalled(name, installed) == name \in installed

\* The wrappers that call toolInstalled on their program before they spawn
\* it; runNmap does not.
Gated == ToolGroups \ {"runNmap"}

\* runCLI: the spawn's error event (program not found) resolves with exit
\* code 127; a program still running when the timer fires is sent SIGTERM,
\* and its close event resolves with what it wrote so far (here: nothing)
\* and exit code 1 (code ?? 1); otherwise the program runs to its close
\* event.
runCLI(cmd, installed, hangs) ==
  IF cmd \notin installed
    THEN [spawned |-> cmd, exitCode |-> 127, stdout |-> "", killed |-> FALSE]
  ELSE IF hangs
    THEN [spawned |-> cmd, exitCode |-> 1, stdout |-> "", killed |-> TRUE]
  ELSE [spawned |-> cmd, exitCode |-> 0, stdout |-> "output", killed |-> FALSE]

\* A result's details text, by its parts: what it names, what it says of
\* it, and the install command it gives in parentheses, if any.
NoHint == "none"

Details(subject, says, hint) ==
  [subject |-> subject, says |-> says, hint |-> hint]

\* The details of the result a wrapper returns when toolInstalled fails.
NotInstalledDetails(g) ==
  CASE g = "runNuclei" ->
         Details("nuclei", "not installed", "brew install nuclei")
    [] g = "runTruffleHog" ->
         Details("trufflehog", "not installed", "brew install trufflehog")
    [] g = "runTrivy" -> Details("trivy", "not installed", "brew install trivy")
    [] g = "runSemgrep" ->
         Details("semgrep", "not installed", "brew install semgrep")
    [] g = "runGitleaks" ->
         Details("gitleaks", "not installed", "brew install gitleaks")
    [] g = "runGrype" -> Details("grype", "not installed", "brew install grype")
    [] g = "runCheckdmarc" ->
         Details("checkdmarc", "not installed", "pip3 install checkdmarc")
    [] g = "runHttpx" -> Details("httpx", "not installed", "brew install httpx")
    [] g = "runLynis" -> Details("ssh", "not available", NoHint)
    [] g = "runTestSSL" ->
         Details("testssl.sh", "not installed", "brew install testssl")
    [] g = "runSSLyze" ->
         Details("sslyze", "not installed", "pip3 install sslyze")

\* The one result of a wrapper that cannot run.
Unavailable(g) ==
  LET c == UnavailableOf(g)
  IN  ok(c.id, c.category, FALSE, c.severity, c.compliance)

\* The inputs of a wrapper call: installed is the set of programs on the
\* PATH, configured tells whether the SSH settings of the VPS are set,
\* failing the checks whose condition fails when the program runs.
\* What a wrapper makes of a runCLI that resolved with exit code 1 and no
\* output: the first result it pushes.  runNmap, runHttpx and runLynis
\* report the failed run, the wrappers that parse one JSON document report
\* the parse failure, and the wrappers that read findings line by line or
\* from a file take the empty output for "no findings".
OnEmptyOutput(g) ==
  CASE g = "runNmap" -> Produced(g, {<<g, 1>>}, 1)[1]
    [] g = "runNuclei" -> Produced(g, {}, 1)[1]
    [] g = "runTruffleHog" -> Produced(g, {}, 1)[1]
    [] g = "runTrivy" -> ok("deps_trivy_parse", "DEPS", FALSE, "low", <<"PCI:11.3">>)
    [] g = "runSemgrep" ->
         ok("sast_semgrep_parse", "SAST", FALSE, "low", <<"SOC2:CC7.1">>)
    [] g = "runGitleaks" -> Produced(g, {}, 1)[1]
    [] g = "runGrype" -> ok("deps_grype_parse", "DEPS", FALSE, "low", <<"PCI:11.3">>)
    [] g = "runCheckdmarc" ->
         ok("email_checkdmarc_parse", "EMAIL", FALSE, "low", <<"SOC2:CC6.6">>)
    [] g = "runHttpx" -> Produced(g, {<<g, 1>>}, 1)[1]
    [] g = "runLynis" -> Unavailable(g)
    [] g = "runTestSSL" -> Produced(g, {}, 1)[1]
    [] g = "runSSLyze" ->
         ok("tls_sslyze_parse", "TLS_DEEP", FALSE, "low", <<"PCI:2.2">>)

\* One call of a wrapper: the programs it spawned, the results it returned
\* with their details, and whether runCLI killed the program.  hangs tells
\* whether the program is still running when runCLI's timer fires.
Wrapper(g, installed, configured, failing, hangs) ==
  IF g \in Gated /\ ~toolInstalled(ProgramOf(g), installed)
    THEN [spawned |-> <<>>,
          value |-> <<Unavailable(g)>>,
          details |-> <<NotInstalledDetails(g)>>,
          killed |-> FALSE]
  ELSE IF g = "runNmap" /\ ~configured
    THEN [spawned |-> <<>>,
          value |-> <<Unavailable(g)>>,
          details |-> <<Details("VPS_SSH_HOST/VPS_SSH_USER/VPS_SSH_KEY",
                                "not configured", NoHint)>>,
          killed |-> FALSE]
  ELSE LET r == runCLI(ProgramOf(g), installed, hangs)
       IN  IF r.exitCode # 0
             THEN [spawned |-> <<r.spawned>>,
                   value |-> <<OnEmptyOutput(g)>>,
                   details |-> <<Details(ProgramOf(g), "exited", NoHint)>>,
                   killed |-> r.killed]
           ELSE [spawned |-> <<r.spawned>>,
                 value |-> Produced(g, failing, Len(ChecksOf(g))),
                 details |-> [i \in 1..Len(ChecksOf(g)) |->
                                Details(ProgramOf(g), "ran", NoHint)],
                 killed |-> FALSE]

NoOutput ==
  [spawned |-> <<>>, value |-> <<>>, details |-> <<>>, killed |-> FALSE]

NoCall ==
  [pc |-> "none", g |-> "none", installed |-> {}, configured |-> FALSE,
   failing |-> {}, hangs |-> FALSE, out |-> NoOutput]

\* ------------------------------------------------------------------ state
VARIABLES
  pc,          \* where the current invocation of runSecurityScan is
  runs,        \* invocations started so far
  mode,        \* the mode of the current invocation
  env,         \* what the adapters do in the current invocation
  clock,       \* the time, in units no two runs share
  saved,       \* history: the reports saved so far, in the order saved
  results,     \* runScan's result list
  coreReport,  \* the report runScan returns
  allResults,  \* runSecurityScan's result list
  report,      \* the report runSecurityScan builds
  previous,    \* what getLastReport returned
  diff,        \* what diffReports returned
  store,       \* the files of logs/security
  alerts,      \* calls of sendTelegramAlert in the current invocation
  output,      \* what the current invocation returned
  error,       \* what rejected the current invocation's promise
  call         \* one call of a tool wrapper, taken on its own

vars ==
  <<endpoints, pc, runs, mode, env, clock, saved, results, coreReport, allResults,
    report, previous, diff, store, alerts, output, error, call>>

NoReport == [kind |-> "none"]

\* The report runScan returns.
ScanReportOf(list, ts) ==
  [kind |-> "report",
   timestamp |-> ts,
   total |-> Len(list),
   passed |-> Len(SelectPass(list)),
   failed |-> Len(SelectFail(list)),
   results |-> list,
   compliance_summary |-> buildComplianceSummary(list)]

\* A slip: the report takes over the rollup of runScan's report, which
\* covers the core results only.
MakeReportCoreRollup(list, ts, m) ==
  [kind |-> "report",
   timestamp |-> ts,
   total |-> Len(list),
   passed |-> Len(SelectPass(list)),
   failed |-> Len(SelectFail(list)),
   results |-> list,
   compliance_summary |-> coreReport.compliance_summary,
   mode |-> m,
   ai_summary |-> "undefined"]

\* The report runSecurityScan builds; ai_summary is set by the review.
MakeReport(list, ts, m) ==
  [kind |-> "report",
   timestamp |-> ts,
   total |-> Len(list),
   passed |-> Len(SelectPass(list)),
   failed |-> Len(SelectFail(list)),
   results |-> list,
   compliance_summary |-> buildComplianceSummaryFromResults(list),
   mode |-> m,
   ai_summary |-> "undefined"]

\* The process starts with its configuration parsed and, in REPORTS_DIR,
\* either nothing or one file the engine did not write (explored under the
\* default configuration).
Init ==
  /\ endpoints \in EndpointConfigs
  /\ pc = "idle"
  /\ runs = 0
  /\ mode = "scan"
  /\ env = NoBehaviour
  /\ clock = 8
  /\ saved = <<>>
  /\ results = <<>>
  /\ coreReport = NoReport
  /\ allResults = <<>>
  /\ report = NoReport
  /\ previous = Null
  /\ diff = NoDiff
  /\ store \in {<<>>} \cup {[n \in {FileName(toISOString(0))} |-> c] :
                             c \in ForeignContents}
  /\ endpoints # DefaultEndpoints => store = <<>>
  /\ alerts = 0
  /\ output = Null
  /\ error = "none"
  /\ call = NoCall

\* main: runSecurityScan(mode) is called; the scheduler serializes calls.
StartRun(m, e) ==
  /\ pc \in {"idle", "done", "failed"}
  /\ runs < MaxRuns
  /\ runs' = runs + 1
  /\ mode' = m
  /\ env' = e
  /\ pc' = "auth"
  /\ results' = <<>>
  /\ coreReport' = NoReport
  /\ allResults' = <<>>
  /\ report' = NoReport
  /\ previous' = Null
  /\ diff' = NoDiff
  /\ alerts' = 0
  /\ output' = Null
  /\ error' = "none"
  /\ UNCHANGED <<call, saved, endpoints, clock, store>>

\* runScan: the auth groups, settled together, before the rate-limit probe.
AuthStage ==
  /\ pc = "auth"
  /\ results' = PushFulfilled(results, AllSettled(AuthGroups, env))
  /\ pc' = "rate"
  /\ UNCHANGED <<call, saved, endpoints, runs, mode, env, clock, coreReport, allResults, report,
                 previous, diff, store, alerts, output, error>>

\* runScan: the rate-limit probe, alone.
RateLimit ==
  /\ pc = "rate"
  /\ results' = PushRateLimit(results, env)
  /\ pc' = "cooldown"
  /\ UNCHANGED <<call, saved, endpoints, runs, mode, env, clock, coreReport, allResults, report,
                 previous, diff, store, alerts, output, error>>

\* runScan: the two-second wait for the rate limiter to reset.
Cooldown ==
  /\ pc = "cooldown"
  /\ clock' = clock + 1
  /\ pc' = "hourly"
  /\ UNCHANGED <<call, saved, endpoints, runs, mode, env, results, coreReport, allResults, report,
                 previous, diff, store, alerts, output, error>>

\* runScan: the hourly groups, settled together.
HourlyStage ==
  /\ pc = "hourly"
  /\ results' = PushFulfilled(results, AllSettled(HourlyGroups, env))
  /\ pc' = "ssh"
  /\ UNCHANGED <<call, saved, endpoints, runs, mode, env, clock, coreReport, allResults, report,
                 previous, diff, store, alerts, output, error>>

\* runScan: the SSH audit group.
VPSInternal ==
  /\ pc = "ssh"
  /\ results' = PushVPSInternal(results, env)
  /\ pc' = "scanned"
  /\ UNCHANGED <<call, saved, endpoints, runs, mode, env, clock, coreReport, allResults, report,
                 previous, diff, store, alerts, output, error>>

\* runScan returns its report; runSecurityScan copies its results.
ScanReturn ==
  /\ pc = "scanned"
  /\ coreReport' = ScanReportOf(results, toISOString(clock))
  /\ allResults' = results
  /\ pc' = IF WithRecon(mode) THEN "recon" ELSE "build"
  /\ UNCHANGED <<call, saved, endpoints, runs, mode, env, clock, results, report, previous, diff,
                 store, alerts, output, error>>

Recon ==
  /\ pc = "recon"
  /\ allResults' = allResults \o runRecon(env)
  /\ pc' = IF WithDailyTools(mode) THEN "tools"
           ELSE IF WithWeeklyTools(mode) THEN "weekly" ELSE "build"
  /\ UNCHANGED <<call, saved, endpoints, runs, mode, env, clock, results, coreReport, report,
                 previous, diff, store, alerts, output, error>>

DailyTools ==
  /\ pc = "tools"
  /\ allResults' = allResults \o runDailyTools(env)
  /\ pc' = IF WithWeeklyTools(mode) THEN "weekly" ELSE "build"
  /\ UNCHANGED <<call, saved, endpoints, runs, mode, env, clock, results, coreReport, report,
                 previous, diff, store, alerts, output, error>>

WeeklyTools ==
  /\ pc = "weekly"
  /\ allResults' = allResults \o runWeeklyTools(env)
  /\ pc' = "build"
  /\ UNCHANGED <<call, saved, endpoints, runs, mode, env, clock, results, coreReport, report,
                 previous, diff, store, alerts, output, error>>

BuildReport ==
  /\ pc = "build"
  /\ report' = MakeReport(allResults, toISOString(clock), mode)
  /\ pc' = "read"
  /\ UNCHANGED <<call, saved, endpoints, runs, mode, env, clock, results, coreReport, allResults,
                 previous, diff, store, alerts, output, error>>

ReadLast ==
  /\ pc = "read"
  /\ previous' = getLastReport(store)
  /\ pc' = "diff"
  /\ UNCHANGED <<call, saved, endpoints, runs, mode, env, clock, results, coreReport, allResults,
                 report, diff, store, alerts, output, error>>

\* diffReports(allResults, previous?.results || null); a TypeError it throws
\* rejects runSecurityScan's promise.
Diff ==
  /\ pc = "diff"
  /\ IF DiffThrows(ResultsOrNull(previous))
       THEN /\ pc' = "failed"
            /\ error' = "TypeError"
            /\ diff' = diff
       ELSE /\ diff' = diffReports(allResults, ResultsOrNull(previous))
            /\ pc' = IF mode = "scan" THEN "save" ELSE "review"
            /\ error' = error
  /\ UNCHANGED <<call, saved, endpoints, runs, mode, env, clock, results, coreReport, allResults,
                 report, previous, store, alerts, output>>

\* reviewWithOllama (hourly, daily) or reviewWithClaude (deep): both catch
\* their own failures and return text.
AiReview ==
  /\ pc = "review"
  /\ report' = [report EXCEPT !.ai_summary =
                  IF mode = "deep" THEN "claude" ELSE "ollama"]
  /\ pc' = "save"
  /\ UNCHANGED <<call, saved, endpoints, runs, mode, env, clock, results, coreReport, allResults,
                 previous, diff, store, alerts, output, error>>

\* await saveReport(report): mkdir or writeFile may throw, which rejects
\* runSecurityScan's promise.
SaveReport ==
  /\ pc = "save"
  /\ \E written \in BOOLEAN :
       IF written
         THEN /\ store' = saveReport(store, report)
              /\ saved' = Append(saved, report)
              /\ pc' = "alert"
              /\ error' = error
         ELSE /\ store' = store
              /\ saved' = saved
              /\ pc' = "failed"
              /\ error' = "WriteError"
  /\ UNCHANGED <<call, endpoints, runs, mode, env, clock, results, coreReport, allResults,
                 report, previous, diff, alerts, output>>

\* if (mode !== "scan") { alert = formatTelegramAlert(...); if (alert) send }
Alert ==
  /\ pc = "alert"
  /\ alerts' = IF mode # "scan" /\ ~AlertSuppressed(report, diff)
                 THEN alerts + 1 ELSE alerts
  /\ pc' = "return"
  /\ UNCHANGED <<call, saved, endpoints, runs, mode, env, clock, results, coreReport, allResults,
                 report, previous, diff, store, output, error>>

\* return { full, compact, filename }
Return ==
  /\ pc = "return"
  /\ output' = [kind |-> "output", filename |-> FileName(report.timestamp),
                total |-> report.total, failed |-> report.failed]
  /\ pc' = "done"
  /\ UNCHANGED <<call, saved, endpoints, runs, mode, env, clock, results, coreReport, allResults,
                 report, previous, diff, store, alerts, error>>

Next ==
  \/ \E m \in Modes : \E e \in Behaviours(m) : StartRun(m, e)
  \/ AuthStage
  \/ RateLimit
  \/ Cooldown
  \/ HourlyStage
  \/ VPSInternal
  \/ ScanReturn
  \/ Recon
  \/ DailyTools
  \/ WeeklyTools
  \/ BuildReport
  \/ ReadLast
  \/ Diff
  \/ AiReview
  \/ SaveReport
  \/ Alert
  \/ Return

Spec == Init /\ [][Next]_vars

\* The steps of a run once it is started.  An async function resumes when
\* the promise it awaits settles, so a run that can take a step takes it.
RunSteps ==
  \/ AuthStage
  \/ RateLimit
  \/ Cooldown
  \/ HourlyStage
  \/ VPSInternal
  \/ ScanReturn
  \/ Recon
  \/ DailyTools
  \/ WeeklyTools
  \/ BuildReport
  \/ ReadLast
  \/ Diff
  \/ AiReview
  \/ SaveReport
  \/ Alert
  \/ Return

FairSpec == Spec /\ WF_vars(RunSteps)

\* ------------------------------------------------- diffReports on its own
\* The result lists diffReports is applied to: every list of at most MaxLen
\* results over two checks, each passing or failing, ids repeated or not.
DiffChecks ==
  {ChecksOf("checkLocalProcessAuth")[1], ChecksOf("checkRateLimit")[1]}

DiffResults ==
  {ok(c.id, c.category, p, c.severity, c.compliance) :
     c \in DiffChecks, p \in BOOLEAN}

DiffLists == UNION {[1..k -> DiffResults] : k \in 0..MaxLen}

InitDiff ==
  /\ endpoints = DefaultEndpoints
  /\ pc = "diff"
  /\ runs = 1
  /\ mode = "scan"
  /\ env = NoBehaviour
  /\ clock = 1
  /\ saved = <<>>
  /\ results = <<>>
  /\ coreReport = NoReport
  /\ allResults \in DiffLists
  /\ report = NoReport
  /\ previous \in {Null} \cup {Object([results |-> Array(l)]) : l \in DiffLists}
  /\ diff = NoDiff
  /\ store = <<>>
  /\ alerts = 0
  /\ output = Null
  /\ error = "none"
  /\ call = NoCall

SpecDiff == InitDiff /\ [][Diff]_vars

\* --------------------------------------------- the rollup, input by input
\* The result lists the two rollup builders are applied to: every list of at
\* most MaxLen results over two ids, every verdict and severity, and two tag
\* lists.  runScan's builder runs when runScan returns, runSecurityScan's
\* when the report is built.
RollupResults ==
  {ok(id, "EXTERNAL_AUTH", p, sev, tags) :
     id \in {"auth_local_process", "rate_limit"},
     p \in BOOLEAN,
     sev \in {"critical", "high", "medium", "low"},
     tags \in {<<"SOC2:CC6.1">>, <<"SOC2:CC6.2", "PCI:8.3">>}}

RollupLists == UNION {[1..k -> RollupResults] : k \in 0..MaxLen}

InitRollup ==
  /\ endpoints = DefaultEndpoints
  /\ pc = "scanned"
  /\ runs = 1
  /\ mode = "scan"
  /\ env = NoBehaviour
  /\ clock = 1
  /\ saved = <<>>
  /\ results \in RollupLists
  /\ coreReport = NoReport
  /\ allResults = <<>>
  /\ report = NoReport
  /\ previous = Null
  /\ diff = NoDiff
  /\ store = <<>>
  /\ alerts = 0
  /\ output = Null
  /\ error = "none"
  /\ call = NoCall

SpecRollup == InitRollup /\ [][ScanReturn \/ BuildReport]_vars

\* ------------------------------------------- the tool wrappers, one call
\* The PATHs a wrapper is called under: at most MaxAbsent of the programs
\* are absent.
Installs ==
  {Programs \ a : a \in {x \in SUBSET Programs : Cardinality(x) <= MaxAbsent}}

InitTools ==
  /\ endpoints = DefaultEndpoints
  /\ pc = "idle"
  /\ runs = 0
  /\ mode = "daily"
  /\ env = NoBehaviour
  /\ clock = 1
  /\ saved = <<>>
  /\ results = <<>>
  /\ coreReport = NoReport
  /\ allResults = <<>>
  /\ report = NoReport
  /\ previous = Null
  /\ diff = NoDiff
  /\ store = <<>>
  /\ alerts = 0
  /\ output = Null
  /\ error = "none"
  /\ \E g \in ToolGroups, i \in Installs, c \in BOOLEAN, f \in BOOLEAN,
        h \in BOOLEAN :
       call = [pc |-> "called", g |-> g, installed |-> i, configured |-> c,
               failing |-> IF f THEN ChecksIn(g) ELSE {}, hangs |-> h,
               out |-> NoOutput]

\* runDailyTools / runWeeklyTools call the wrapper; it returns.
CallWrapper ==
  /\ call.pc = "called"
  /\ call' = [call EXCEPT
                !.pc = "returned",
                !.out = Wrapper(call.g, call.installed, call.configured,
                                call.failing, call.hangs)]
  /\ UNCHANGED <<endpoints, pc, runs, mode, env, clock, saved, results,
                 coreReport, allResults, report, previous, diff, store,
                 alerts, output, error>>

SpecTools == InitTools /\ [][CallWrapper]_vars

\* --------------------------------------- the probing groups, one call
\* The groups whose first check is decided by an HTTP response.
ProbeGroups ==
  {"checkWebhookAuth", "checkLocalProcessAuth", "checkRateLimit",
   "checkHeaderDisclosure", "checkSecurityHeaders", "checkWebApp"}

\* What the target answers when it is reached: a status, the headers the
\* checks look for, and whether the body shows a stack trace.
Answers ==
  [status : {200, 401, 403, 404, 429, 503},
   headers : SUBSET {"server", "x-frame-options"},
   trace : BOOLEAN]

\* probe: the response, or status 0 with no headers and the error's message
\* as body when fetch throws (host unreachable, aborted by the timer).
probe(reachable, answer) ==
  IF reachable THEN answer
  ELSE [status |-> 0, headers |-> {}, trace |-> FALSE]

\* The pass condition of each group's checks on a response; checkRateLimit's
\* probes all get the same answer.
PassOn(g, res) ==
  CASE g = "checkWebhookAuth" -> res.status \in {401, 403, 429, 503}
    [] g = "checkLocalProcessAuth" -> res.status \in {401, 403}
    [] g = "checkRateLimit" -> res.status = 429
    [] g = "checkHeaderDisclosure" -> "server" \notin res.headers
    [] g = "checkSecurityHeaders" -> "x-frame-options" \in res.headers
    [] g = "checkWebApp" -> ~res.trace

\* One call of a probing group: its results on the response probe returns.
ProbeGroup(g, reachable, answer) ==
  LET res == probe(reachable, answer)
  IN  [i \in 1..Len(ChecksOf(g)) |->
         LET c == ChecksOf(g)[i]
         IN  ok(c.id, c.category, PassOn(g, res), c.severity, c.compliance)]

InitProbe ==
  /\ endpoints = DefaultEndpoints
  /\ pc = "idle"
  /\ runs = 0
  /\ mode = "scan"
  /\ env = NoBehaviour
  /\ clock = 1
  /\ saved = <<>>
  /\ results = <<>>
  /\ coreReport = NoReport
  /\ allResults = <<>>
  /\ report = NoReport
  /\ previous = Null
  /\ diff = NoDiff
  /\ store = <<>>
  /\ alerts = 0
  /\ output = Null
  /\ error = "none"
  /\ \E g \in ProbeGroups, r \in BOOLEAN, a \in Answers :
       call = [pc |-> "probing", g |-> g, reachable |-> r, answer |-> a,
               value |-> <<>>]

\* runScan calls the group; it returns its results.
CallProbeGroup ==
  /\ call.pc = "probing"
  /\ call' = [call EXCEPT
                !.pc = "probed",
                !.value = ProbeGroup(call.g, call.reachable, call.answer)]
  /\ UNCHANGED <<endpoints, pc, runs, mode, env, clock, saved, results,
                 coreReport, allResults, report, previous, diff, store,
                 alerts, output, error>>

SpecProbe == InitProbe /\ [][CallProbeGroup]_vars

\* ------------------------------------- one run, group by group in time
\* The calls of one run as the event loop orders them: a stage's groups are
\* all called before the stage is awaited, they settle in any order, and
\* the code after the await runs once every one of them has settled.
\* call.st is each group's promise, call.waiting tells whether the run is
\* at the await of the stage pc names, call.sub counts the sub-checks
\* checkVPSInternal has completed.
StagePc == <<"auth", "rate", "hourly", "ssh", "recon", "tools", "weekly">>

StageAt(p) == CHOOSE i \in 1..Len(StagePc) : StagePc[i] = p

Settled(g) == call.st[g] \in {"fulfilled", "rejected"}

\* A slip: the stage is awaited with Promise.race, which resumes on the
\* first group that settles.
AwaitedRace(i) == \E g \in Range(Stages[i]) : Settled(g)

\* A slip: the rate-limit probe is called without await.
AwaitedButRate(i) == i = 2 \/ \A g \in Range(Stages[i]) : Settled(g)

\* await Promise.allSettled([...]) / await checkRateLimit() /
\* await checkVPSInternal(): resumes when every promise has settled.
Awaited(i) == \A g \in Range(Stages[i]) : Settled(g)

\* The number of sub-checks checkVPSInternal completes in this run.
SubChecks(e) ==
  IF "checkVPSInternal" \in e.thrown
    THEN Min(e.done, Len(ChecksOf("checkVPSInternal")))
  ELSE Len(ChecksOf("checkVPSInternal"))

\* The position after the code that follows a stage's await.
AfterStage(i, m) ==
  CASE i = 1 -> "rate"
    [] i = 2 -> "cooldown"
    [] i = 3 -> "ssh"
    [] i = 4 -> "scanned"
    [] i = 5 -> IF WithDailyTools(m) THEN "tools"
                ELSE IF WithWeeklyTools(m) THEN "weekly" ELSE "build"
    [] i = 6 -> IF WithWeeklyTools(m) THEN "weekly" ELSE "build"
    [] i = 7 -> "build"

NotCalled ==
  [st |-> [g \in AllGroups |-> "idle"], waiting |-> FALSE, sub |-> 0]

InitSched ==
  /\ endpoints = DefaultEndpoints
  /\ pc = "auth"
  /\ runs = 1
  /\ mode \in Modes
  /\ env \in Behaviours(mode)
  /\ clock = 1
  /\ saved = <<>>
  /\ results = <<>>
  /\ coreReport = NoReport
  /\ allResults = <<>>
  /\ report = NoReport
  /\ previous = Null
  /\ diff = NoDiff
  /\ store = <<>>
  /\ alerts = 0
  /\ output = Null
  /\ error = "none"
  /\ call = NotCalled

\* The stage's groups are called, each running to its first await.
CallStage ==
  /\ pc \in Range(StagePc)
  /\ ~call.waiting
  /\ call' = [call EXCEPT
                !.st = [g \in AllGroups |->
                          IF g \in Range(Stages[StageAt(pc)])
                            THEN "running" ELSE call.st[g]],
                !.waiting = TRUE]
  /\ UNCHANGED <<endpoints, pc, runs, mode, env, clock, saved, results,
                 coreReport, allResults, report, previous, diff, store,
                 alerts, output, error>>

\* checkVPSInternal: the next sub-check, awaited before the one after it.
VpsSubCheck ==
  /\ call.st["checkVPSInternal"] = "running"
  /\ call.sub < SubChecks(env)
  /\ call' = [call EXCEPT !.sub = @ + 1]
  /\ UNCHANGED <<endpoints, pc, runs, mode, env, clock, saved, results,
                 coreReport, allResults, report, previous, diff, store,
                 alerts, output, error>>

\* A running group's promise settles.
Settle(g) ==
  /\ call.st[g] = "running"
  /\ g = "checkVPSInternal" => call.sub = SubChecks(env)
  /\ call' = [call EXCEPT
                !.st[g] = IF g \in env.thrown THEN "rejected" ELSE "fulfilled"]
  /\ UNCHANGED <<endpoints, pc, runs, mode, env, clock, saved, results,
                 coreReport, allResults, report, previous, diff, store,
                 alerts, output, error>>

\* The code after a stage's await: the settled results are appended.
CollectStage ==
  /\ pc \in Range(StagePc)
  /\ call.waiting
  /\ Awaited(StageAt(pc))
  /\ LET i == StageAt(pc)
     IN  /\ results' =
               CASE i = 1 -> PushFulfilled(results, AllSettled(AuthGroups, env))
                 [] i = 2 -> PushRateLimit(results, env)
                 [] i = 3 -> PushFulfilled(results, AllSettled(HourlyGroups, env))
                 [] i = 4 -> PushVPSInternal(results, env)
                 [] OTHER -> results
         /\ allResults' =
               CASE i = 5 -> allResults \o runRecon(env)
                 [] i = 6 -> allResults \o runDailyTools(env)
                 [] i = 7 -> allResults \o runWeeklyTools(env)
                 [] OTHER -> allResults
         /\ pc' = AfterStage(i, mode)
  /\ call' = [call EXCEPT !.waiting = FALSE]
  /\ UNCHANGED <<endpoints, runs, mode, env, clock, saved, coreReport, report,
                 previous, diff, store, alerts, output, error>>

NextSched ==
  \/ CallStage
  \/ VpsSubCheck
  \/ \E g \in AllGroups : Settle(g)
  \/ CollectStage
  \/ Cooldown
  \/ ScanReturn

SpecSched == InitSched /\ [][NextSched]_vars

\* ------------------------------------------- the formatters on their own
SeverityOrder == <<"critical", "high", "medium", "low", "info">>

\* const order = { critical: 0, high: 1, medium: 2, low: 3, info: 4 }
order(severity) ==
  (CHOOSE i \in 1..Len(SeverityOrder) : SeverityOrder[i] = severity) - 1

\* .sort((a, b) => order[a.severity] - order[b.severity]); Array.prototype
\* .sort is stable.
SortBySeverity(list) ==
  Concat([i \in 1..Len(SeverityOrder) |->
            SelectSeq(list, LAMBDA r : order(r.severity) = i - 1)])

\* list.slice(0, n)
Slice(list, n) == SubSeq(list, 1, Min(n, Len(list)))

\* A line of text that lists a finding: the section it stands in, and the
\* finding's id and severity.
Line(section, r) == [section |-> section, id |-> r.id, severity |-> r.severity]

Lines(section, list) == [i \in 1..Len(list) |-> Line(section, list[i])]

\* formatReport: the lines that list findings, in the order of the text.
formatReport(rep, d) ==
  (IF Len(d.new_failures) > 0 \/ Len(d.resolved) > 0
     THEN Lines("NEW FAIL", d.new_failures) \o Lines("RESOLVED", d.resolved)
   ELSE <<>>)
  \o Lines("FAILURES", SortBySeverity(SelectFail(rep.results)))

\* formatTelegramAlert: null, or the lines that list findings.
formatTelegramAlert(rep, d) ==
  IF AlertSuppressed(rep, d) THEN Null
  ELSE [kind |-> "text",
        lines |->
          Lines("New failures", Slice(d.new_failures, 5))
          \o Lines("Critical",
                   Slice(SelectSeq(rep.results,
                                   LAMBDA r : ~r.pass /\ r.severity = "critical"),
                         3))]

\* The result lists the formatters are applied to: every list of at most
\* MaxLen results over two ids, passing or failing at every severity.
FormatResults ==
  {ok(id, "EXTERNAL_AUTH", p, sev, <<"SOC2:CC6.1">>) :
     id \in {"auth_local_process", "rate_limit"},
     p \in BOOLEAN,
     sev \in {"critical", "high", "medium", "low"}}

FormatLists == UNION {[1..k -> FormatResults] : k \in 0..MaxLen}

\* The run has built its report and diffed it against no prior report or
\* against a prior report with the same results.
InitFormat ==
  /\ endpoints = DefaultEndpoints
  /\ pc = "format"
  /\ runs = 1
  /\ mode = "hourly"
  /\ env = NoBehaviour
  /\ clock = 1
  /\ saved = <<>>
  /\ results = <<>>
  /\ coreReport = NoReport
  /\ allResults \in FormatLists
  /\ report = MakeReport(allResults, toISOString(clock), mode)
  /\ previous \in {Null, Object([results |-> Array(allResults)])}
  /\ diff = diffReports(allResults, ResultsOrNull(previous))
  /\ store = <<>>
  /\ alerts = 0
  /\ output = Null
  /\ error = "none"
  /\ call = NoCall

\* const full = formatReport(...); const alert = formatTelegramAlert(...)
Format ==
  /\ pc = "format"
  /\ output' = [kind |-> "output",
                full |-> formatReport(report, diff),
                alert |-> formatTelegramAlert(report, diff)]
  /\ pc' = "formatted"
  /\ UNCHANGED <<endpoints, runs, mode, env, clock, saved, results, coreReport,
                 allResults, report, previous, diff, store, alerts, error,
                 call>>

SpecFormat == InitFormat /\ [][Format]_vars

\* ================================================================ claims
\* diffReports has returned in the current invocation.
DiffDone ==
  \/ pc \in {"review", "save", "alert", "return", "done"}
  \/ pc = "failed" /\ error = "WriteError"

\* The previous results diffReports was given: the items of the array, or
\* none when it was given null.
PriorItems ==
  LET prior == ResultsOrNull(previous)
  IN  IF IsNull(prior) THEN <<>> ELSE prior.items

UniqueIds(list) ==
  \A i, j \in 1..Len(list) : list[i].id = list[j].id => i = j

\* The state of a check id in a report whose ids are unique.
StateIn(list, id) ==
  IF id \notin Ids(list) THEN "absent"
  ELSE IF (list[CHOOSE i \in 1..Len(list) : list[i].id = id]).pass THEN "pass"
  ELSE "fail"

A == "auth_local_process"
B == "rate_limit"
ResultOf(id, pass) ==
  CHOOSE r \in DiffResults : r.id = id /\ r.pass = pass

\* C1: for reports P (previous) and C (current) in which every id occurs
\* once, diffReports lists an id under new_failures exactly when it fails in
\* C and is absent from or passes in P, under persistent_failures exactly
\* when it fails in both, under resolved exactly when it fails in P and
\* passes in or is absent from C; an id passing in both is in no list.  The
\* entries of new_failures and persistent_failures are C's results, those of
\* resolved are P's, each id at most once.
C1_DiffTable ==
  (DiffDone /\ UniqueIds(allResults) /\ UniqueIds(PriorItems)) =>
    /\ \A id \in Ids(allResults) \cup Ids(PriorItems) :
         LET p == StateIn(PriorItems, id)
             c == StateIn(allResults, id)
         IN  /\ id \in Ids(diff.new_failures)
                  <=> (c = "fail" /\ p \in {"absent", "pass"})
             /\ id \in Ids(diff.persistent_failures)
                  <=> (p = "fail" /\ c = "fail")
             /\ id \in Ids(diff.resolved)
                  <=> (p = "fail" /\ c \in {"pass", "absent"})
    /\ Range(diff.new_failures) \subseteq Range(allResults)
    /\ Range(diff.persistent_failures) \subseteq Range(allResults)
    /\ Range(diff.resolved) \subseteq Range(PriorItems)
    /\ UniqueIds(diff.new_failures)
    /\ UniqueIds(diff.persistent_failures)
    /\ UniqueIds(diff.resolved)

\* The example of the table: P = {A: pass, B: fail}, C = {A: fail, B: pass}
\* gives new_failures = [A], resolved = [B], persistent_failures = [].
C1_Witness ==
  /\ DiffDone
  /\ PriorItems = <<ResultOf(A, TRUE), ResultOf(B, FALSE)>>
  /\ allResults = <<ResultOf(A, FALSE), ResultOf(B, TRUE)>>
  /\ diff.new_failures = <<ResultOf(A, FALSE)>>
  /\ diff.resolved = <<ResultOf(B, FALSE)>>
  /\ diff.persistent_failures = <<>>

\* C2: with an empty store getLastReport returns null, and whenever it
\* returns null the run's diff has every failing result of the current
\* report in new_failures, in report order, and nothing in resolved or
\* persistent_failures.
C2_FirstRunAllNew ==
  /\ (pc = "diff" /\ DOMAIN store = {}) => IsNull(previous)
  /\ (DiffDone /\ IsNull(previous)) =>
       /\ diff.new_failures = SelectSeq(report.results, LAMBDA r : ~r.pass)
       /\ diff.resolved = <<>>
       /\ diff.persistent_failures = <<>>

C2_Witness ==
  /\ pc = "save"
  /\ runs = 1
  /\ DOMAIN store = {}
  /\ Len(diff.new_failures) > 0
  /\ Len(diff.new_failures) < Len(report.results)

\* The previous report is one this program stored.
PriorIsReport ==
  /\ ~IsNull(previous)
  /\ previous.kind = "object"
  /\ {"timestamp", "mode", "results"} \subseteq DOMAIN previous.fields

Verdicts(list) == [i \in 1..Len(list) |-> <<list[i].id, list[i].pass>>]

SameTarget ==
  /\ PriorIsReport
  /\ previous.fields.mode = mode
  /\ Verdicts(previous.fields.results.items) = Verdicts(allResults)

\* C3: when a run diffs against the stored report of a run of the same tier
\* and every check produced the same id and the same verdict in both runs,
\* its diff has no new failure and nothing resolved: every failure of the
\* run is persistent.
C3_SteadyState ==
  (DiffDone /\ SameTarget) =>
    /\ diff.new_failures = <<>>
    /\ diff.resolved = <<>>
    /\ diff.persistent_failures = SelectSeq(allResults, LAMBDA r : ~r.pass)

CountsAgree(r) ==
  /\ r.total = r.passed + r.failed
  /\ r.total = Len(r.results)
  /\ r.passed = Cardinality({i \in 1..Len(r.results) : r.results[i].pass})

\* The reports the store holds.
StoredReports ==
  {store[n].value.fields : n \in {m \in DOMAIN store :
      /\ store[m].kind = "text"
      /\ store[m].valid
      /\ store[m].value.kind = "object"
      /\ "total" \in DOMAIN store[m].value.fields}}

\* C4: in the report runScan returns, in the report runSecurityScan builds
\* and in every stored report, total = passed + failed = the number of
\* results, whatever the mode and whatever the adapters did.
C4_ReportCounts ==
  /\ coreReport # NoReport => CountsAgree(coreReport)
  /\ report # NoReport => CountsAgree(report)
  /\ \A f \in StoredReports :
       /\ f.total = f.passed + f.failed
       /\ f.total = Len(f.results.items)

C4_Witness ==
  /\ pc = "done"
  /\ env.thrown # {}
  /\ report.failed > 0
  /\ report.passed > 0
  /\ coreReport.total < report.total

Normalised(list) ==
  \A i \in 1..Len(list) : list[i].pass => list[i].severity = "info"

\* C5: every result of every list and report of a run has severity info when
\* it passes, whatever severity its check passed to ok().
C5_PassIsInfo ==
  /\ Normalised(results)
  /\ Normalised(allResults)
  /\ coreReport # NoReport => Normalised(coreReport.results)
  /\ report # NoReport => Normalised(report.results)
  /\ \A f \in StoredReports : Normalised(f.results.items)

\* A report holding a passing result of a check whose ok() call names
\* critical, next to the synthetic failure of the SSH group.
C5_Witness ==
  /\ report # NoReport
  /\ \E i \in 1..Len(report.results) :
       /\ report.results[i].id = "auth_webhook"
       /\ report.results[i].pass
       /\ ChecksOf("checkWebhookAuth")[1].severity = "critical"
  /\ SshConnectFailure \in Range(report.results)

\* The results of the report that the code of group g emitted.
\* The ids the code of group g emits.
IdsOfGroup(g) ==
  {ChecksOf(g)[i].id : i \in 1..Len(ChecksOf(g))}
  \cup (IF g \in ToolGroups THEN {UnavailableOf(g).id} ELSE {})
  \cup (IF g = "checkVPSInternal" THEN {SshConnectFailure.id} ELSE {})

FromGroup(g) ==
  LET ids == IdsOfGroup(g)
  IN  SelectSeq(report.results, LAMBDA r : r.id \in ids)

ThrownGroups == env.thrown \cap GroupsOfMode(mode)

\* C6: a group that throws does not abort the run and takes no other group's
\* results with it: the report is built, it holds, for every group of the
\* run that did not throw, exactly the results that group returned, and the
\* run is only ever cut short by the steps that read and write the store.
C6_GroupIsolation ==
  /\ pc \in {"read", "diff", "review", "save", "alert", "return", "done", "failed"}
       => report # NoReport
  /\ pc = "failed" => error \in {"TypeError", "WriteError"}
  /\ report # NoReport =>
       \A g \in GroupsOfMode(mode) \ env.thrown :
         FromGroup(g) = Adapter(g, env).value

C6_Witness ==
  /\ pc = "done"
  /\ output # Null
  /\ "checkShodan" \in ThrownGroups
  /\ FromGroup("checkCertTransparency") # <<>>
  /\ FromGroup("checkWebhookAuth") # <<>>

\* C7: every group that throws during a run contributes exactly one failing
\* result of its own to the report.
C7_OneSyntheticPerThrownGroup ==
  report # NoReport =>
    \A g \in ThrownGroups :
      Len(SelectSeq(FromGroup(g), LAMBDA r : ~r.pass)) = 1

\* C8: when the SSH audit throws after k sub-checks, the report holds the k
\* sub-results it had produced, followed by the one synthetic failure.
C8_PartialResultsKept ==
  (report # NoReport /\ "checkVPSInternal" \in ThrownGroups) =>
    FromGroup("checkVPSInternal") =
      Append(Adapter("checkVPSInternal", env).partial, SshConnectFailure)

\* The latest file of the store is not a report: it cannot be read, is not
\* JSON, or is JSON whose results field is missing or is not a list of
\* results.
Malformed(content) ==
  \/ content.kind = "unreadable"
  \/ ~content.valid
  \/ content.value.kind # "object"
  \/ "results" \notin DOMAIN content.value.fields
  \/ content.value.fields.results.kind # "array"
  \/ ~Touchable(content.value.fields.results.items)

LatestMalformed ==
  /\ DOMAIN store # {}
  /\ Malformed(store[LastName(store)])

\* C9: a run that finds a malformed latest file goes on as if there were no
\* previous report: it does not abort in the diff, and its diff is the one
\* of a first run.
C9_MalformedPriorIsNoPrior ==
  LatestMalformed =>
    /\ ~(pc = "failed" /\ error = "TypeError")
    /\ DiffDone => diff = diffReports(allResults, Null)

\* C10: a run whose write to the store failed still returns its output, and
\* has applied the alert policy to its report.
C10_FailedWriteStillReturns ==
  error = "WriteError" => pc # "failed"

\* The tiers, lowest first.
TierOrder == <<"scan", "hourly", "daily", "deep">>

TierRank(m) == CHOOSE i \in 1..Len(TierOrder) : TierOrder[i] = m

\* C11: the report a run builds holds the results runSecurityScan collects for
\* its mode, and, the adapters behaving the same, the check ids of every
\* tier are among the check ids of every higher tier: scan within hourly
\* within daily within deep.
C11_TierSuperset ==
  pc = "read" =>
    /\ report.results = ResultsOfMode(mode, env)
    /\ \A lo, hi \in Modes :
         TierRank(lo) <= TierRank(hi) =>
           Ids(ResultsOfMode(lo, env)) \subseteq Ids(ResultsOfMode(hi, env))

C11_Witness ==
  /\ pc = "read"
  /\ mode = "deep"
  /\ env.thrown # {}
  /\ Ids(ResultsOfMode("scan", env)) # Ids(ResultsOfMode("hourly", env))
  /\ Ids(ResultsOfMode("hourly", env)) # Ids(ResultsOfMode("daily", env))
  /\ Ids(ResultsOfMode("daily", env)) # Ids(report.results)

\* The failing results of the list that carry a tag of the framework.
Contributors(list, fw) ==
  {i \in 1..Len(list) :
     /\ ~list[i].pass
     /\ \E j \in 1..Len(list[i].compliance) : list[i].compliance[j] \in TagsOf(fw)}

ExpectedStatus(list, fw) ==
  IF \E i \in Contributors(list, fw) : list[i].severity \in {"critical", "high"}
    THEN "fail"
  ELSE IF Contributors(list, fw) # {} THEN "warn"
  ELSE "pass"

Prefix(list, k) == SubSeq(list, 1, k)

\* C12: for each framework, in runScan's rollup and in runSecurityScan's, the
\* status is fail iff some failing result tagged for the framework is
\* critical or high, warn iff some failing result is tagged for it and none
\* of those is critical or high, and pass otherwise; and a status that is
\* fail after a prefix of the results is fail after every longer prefix.
C12_RollupStatus ==
  /\ coreReport # NoReport =>
       \A fw \in Range(Frameworks) :
         coreReport.compliance_summary[fw].status
           = ExpectedStatus(coreReport.results, fw)
  /\ report # NoReport =>
       \A fw \in Range(Frameworks) :
         /\ report.compliance_summary[fw].status
              = ExpectedStatus(report.results, fw)
         /\ \A k \in 0..Len(report.results) :
              buildComplianceSummaryFromResults(Prefix(report.results, k))[fw].status = "fail"
                => report.compliance_summary[fw].status = "fail"

\* The spec's example: a medium failure tagged SOC2:CC6.1, then a critical
\* failure tagged SOC2:CC6.2, then one more medium failure.
C12_Witness ==
  /\ report # NoReport
  /\ Len(report.results) = 3
  /\ ~report.results[1].pass /\ report.results[1].severity = "medium"
  /\ report.results[1].compliance = <<"SOC2:CC6.1">>
  /\ ~report.results[2].pass /\ report.results[2].severity = "critical"
  /\ report.results[2].compliance = <<"SOC2:CC6.2", "PCI:8.3">>
  /\ ~report.results[3].pass /\ report.results[3].severity = "medium"
  /\ report.compliance_summary["SOC2"].status = "fail"
  /\ report.compliance_summary["PCI-DSS"].status = "fail"
  /\ report.compliance_summary["HIPAA"].status = "pass"

\* The entries "<id>: <tag>" the failing results of the list contribute to
\* the framework.
ExpectedAffected(list, fw) ==
  UNION {{<<list[i].id, t>> : t \in Range(list[i].compliance) \cap TagsOf(fw)} :
           i \in Contributors(list, fw)}

NoDuplicates(list) == \A i, j \in 1..Len(list) : list[i] = list[j] => i = j

\* C13: for each framework the affected list of runSecurityScan's rollup has
\* no duplicates and holds the entry "<id>: <tag>" exactly for the failing
\* results that carry a tag of the framework; no entry comes from a passing
\* result.
C13_RollupAffected ==
  report # NoReport =>
    \A fw \in Range(Frameworks) :
      LET affected == report.compliance_summary[fw].affected
      IN  /\ NoDuplicates(affected)
          /\ Range(affected) = ExpectedAffected(report.results, fw)

C13_Witness ==
  /\ report # NoReport
  /\ Len(report.results) = 3
  /\ report.results[1] = report.results[2]
  /\ ~report.results[1].pass
  /\ report.results[3].pass
  /\ report.results[3].id # report.results[1].id
  /\ Len(report.compliance_summary["SOC2"].affected) = 1

\* The report has a failing result of one of the severities.
HasFailing(r, sevs) ==
  \E i \in 1..Len(r.results) : ~r.results[i].pass /\ r.results[i].severity \in sevs

\* The run has passed the alert step.
AlertDone == pc \in {"return", "done"}

\* C14: a run whose report has no critical or high failing result and whose
\* diff has no new failure sends no notification.
C14_QuietRunNoAlert ==
  (/\ report # NoReport
   /\ ~HasFailing(report, {"critical", "high"})
   /\ diff.new_failures = <<>>) => alerts = 0

C14_Witness ==
  /\ pc = "done"
  /\ mode # "scan"
  /\ HasFailing(report, {"medium", "low", "info"})
  /\ ~HasFailing(report, {"critical", "high"})
  /\ diff.new_failures = <<>>
  /\ Len(diff.persistent_failures) > 0
  /\ alerts = 0

C16_SilentScanNoAlert ==
  (AlertDone /\ ~IsNull(previous) /\ diff.new_failures = <<>>) => alerts = 0

\* getLastReport has returned in the current run.
ReadDone ==
  pc \in {"diff", "review", "save", "alert", "return", "done", "failed"}

\* The reports saved by the runs before the current one.
EarlierSaved ==
  IF pc \in {"alert", "return", "done"}
    THEN SubSeq(saved, 1, Len(saved) - 1)
  ELSE saved

C18_AppendOnlyOneFilePerRun ==
  /\ (pc \in {"done", "failed"} /\ error # "WriteError") =>
       /\ FileName(report.timestamp) \in DOMAIN store
       /\ store[FileName(report.timestamp)] = Stringify(report)
  /\ \A i \in 1..Len(saved) :
       /\ FileName(saved[i].timestamp) \in DOMAIN store
       /\ store[FileName(saved[i].timestamp)] = Stringify(saved[i])
  /\ \A i, j \in 1..Len(saved) :
       saved[i].timestamp = saved[j].timestamp => i = j
\* C19: check ids are unique within every report: whatever endpoint list is
\* configured, no two results of one report share an id.  checkWebhookAuth
\* derives the id from the endpoint's path alone, so a path listed under
\* two methods gives two results with the same id.
C19_UniqueIds ==
  report # NoReport => UniqueIds(report.results)

\* C20: when the program a wrapper runs is not installed, the wrapper
\* spawns nothing and returns exactly one result, of severity low or info,
\* whose details name the program and give an install command.  runNmap
\* spawns ssh without asking whether it is there, and runLynis's result for
\* a missing ssh gives no install command.
C20_NotInstalledOneLowResultWithHint ==
  (call.pc = "returned" /\ ~toolInstalled(ProgramOf(call.g), call.installed)) =>
    /\ call.out.spawned = <<>>
    /\ Len(call.out.value) = 1
    /\ call.out.value[1].severity \in {"low", "info"}
    /\ call.out.details[1].subject = ProgramOf(call.g)
    /\ call.out.details[1].hint # NoHint

\* C21: a subprocess that exceeds its timeout is killed and the owning
\* check reports a failing result; a timed-out operation never yields a
\* passing result.  runCLI does kill the program, but runNuclei,
\* runTruffleHog, runGitleaks and runTestSSL read the killed program's empty
\* output as "no findings" and pass.
C21_TimeoutFails ==
  (call.pc = "returned" /\ call.out.killed) =>
    \A i \in 1..Len(call.out.value) : ~call.out.value[i].pass

\* C22: when a check cannot reach its target (probe returns status 0), the
\* result it emits is failing with severity low or info, not the check's
\* intrinsic severity.  The checks read status 0 as any other wrong status:
\* checkWebhookAuth fails at critical, and checkHeaderDisclosure passes.
C22_UnreachableIsLowFailure ==
  (call.pc = "probed" /\ ~call.reachable) =>
    \A i \in 1..Len(call.value) :
      /\ ~call.value[i].pass
      /\ call.value[i].severity \in {"low", "info"}

\* The third-party hosts the checks of a group call, with the credentials
\* of the modelled checks (CONVEX_URL, MS365_REFRESH_TOKEN) configured.
ThirdPartyOf(g) ==
  CASE g = "checkAPICredentials" -> {"CONVEX_URL"}
    [] g = "checkTokenFreshness" -> {"graph.microsoft.com"}
    [] g = "checkShodan" -> {"internetdb.shodan.io"}
    [] g = "checkCertTransparency" -> {"crt.sh"}
    [] g = "checkDNS" -> {"dns.google"}
    [] g = "checkDependencies" -> {"api.osv.dev"}
    [] OTHER -> {}

\* The groups a scan-mode run may invoke: no recon adapter, no tool wrapper,
\* and no check that calls a third party.
ScanSafeGroups ==
  {g \in AllGroups \ (Range(ReconGroups) \cup ToolGroups) : ThirdPartyOf(g) = {}}

\* C23: a run in mode scan calls no third-party API and invokes no recon
\* adapter, tool wrapper or AI review, whatever is configured.  The run's
\* report holds only results of groups that stay on the operator's own
\* hosts, and no review has been written into it.  runSecurityScan always
\* calls runScan, whose hourly stage holds checkAPICredentials and
\* checkTokenFreshness.
C23_ScanStaysLocal ==
  (mode = "scan" /\ report # NoReport) =>
    /\ report.ai_summary = "undefined"
    /\ \A i \in 1..Len(report.results) :
         \E g \in ScanSafeGroups : report.results[i].id \in IdsOfGroup(g)

\* C24: the rate-limit probe sends its first request only after every
\* auth group has settled and the results of the fulfilled ones are in the
\* result list.
C24_AuthBeforeRateLimit ==
  call.st["checkRateLimit"] # "idle" =>
    /\ \A g \in Range(AuthGroups) : Settled(g)
    /\ Len(results) >= Len(PushFulfilled(<<>>, AllSettled(AuthGroups, env)))
    /\ SubSeq(results, 1, Len(PushFulfilled(<<>>, AllSettled(AuthGroups, env))))
         = PushFulfilled(<<>>, AllSettled(AuthGroups, env))

\* The rate-limit probe is running after an auth group was rejected and
\* another one's results were recorded.
C24_Witness ==
  /\ call.st["checkRateLimit"] = "running"
  /\ \E g \in Range(AuthGroups) : call.st[g] = "rejected"
  /\ results # <<>>

\* C25: while the rate-limit probe is running, no other group of the run is
\* in progress.
C25_RateLimitRunsAlone ==
  call.st["checkRateLimit"] = "running" =>
    \A g \in AllGroups \ {"checkRateLimit"} : call.st[g] # "running"

\* The rate-limit probe is running in a run whose later stages hold groups
\* that generate requests.
C25_Witness ==
  /\ call.st["checkRateLimit"] = "running"
  /\ mode = "deep"
  /\ \A g \in Range(AuthGroups) : Settled(g)

\* checkVPSInternal is never in progress together with another group.
SshGroupRunsAlone ==
  call.st["checkVPSInternal"] = "running" =>
    \A g \in AllGroups \ {"checkVPSInternal"} : call.st[g] # "running"

\* C26: the SSH audit group runs its sub-checks one after the other, and the
\* group as a whole runs together with the groups of the hourly stage:
\* while they are in progress it has been called too.  runScan calls
\* checkVPSInternal only after the hourly stage has settled.
C26_SshGroupRunsWithSiblings ==
  (\E g \in Range(HourlyGroups) : call.st[g] = "running") =>
    call.st["checkVPSInternal"] # "idle"

\* C27: every run of runSecurityScan eventually completes and returns its
\* output, given that every call and subprocess of the run ends (each stage
\* is one step of the model).  A run whose diffReports or saveReport throws
\* ends rejected and returns nothing.
C27_EveryRunReturns ==
  [](pc = "auth" => <>(pc = "done" /\ output # Null))

SeverityOrdered(lines) ==
  \A i \in 1..Len(lines) : \A j \in i..Len(lines) :
    order(lines[i].severity) <= order(lines[j].severity)

\* C28: in the report text and in the alert text the findings are listed in
\* the order critical, high, medium, low, info: no finding stands before a
\* finding of higher severity.  Only the FAILURES section is sorted; the new
\* failures are listed first, in the order of the report.
C28_FindingsInSeverityOrder ==
  pc = "formatted" =>
    /\ SeverityOrdered(output.full)
    /\ ~IsNull(output.alert) => SeverityOrdered(output.alert.lines)

\* The FAILURES section of the report text is in severity order.
FailuresSectionOrdered ==
  pc = "formatted" =>
    SeverityOrdered(SelectSeq(output.full, LAMBDA l : l.section = "FAILURES"))

\* C29: in every diff, new_failures and persistent_failures share no
\* result and together hold exactly the failing results of the current
\* report, so that their lengths add up to report.failed; and no id stands
\* both in resolved and in new_failures or persistent_failures.  With one
\* id on two results of a report (C19) the same id can be resolved and
\* failing at once.
C29_DiffPartition ==
  DiffDone =>
    /\ Ids(diff.new_failures) \cap Ids(diff.persistent_failures) = {}
    /\ Range(diff.new_failures) \cup Range(diff.persistent_failures)
         = Range(SelectFail(allResults))
    /\ Len(diff.new_failures) + Len(diff.persistent_failures) = report.failed
    /\ Ids(diff.resolved)
         \cap (Ids(diff.new_failures) \cup Ids(diff.persistent_failures)) = {}

\* The first three parts of C29 hold whatever the ids are.
FailuresPartitioned ==
  DiffDone =>
    /\ Ids(diff.new_failures) \cap Ids(diff.persistent_failures) = {}
    /\ Range(diff.new_failures) \cup Range(diff.persistent_failures)
         = Range(SelectFail(allResults))
    /\ Len(diff.new_failures) + Len(diff.persistent_failures)
         = Len(SelectFail(allResults))

\* The file saveReport wrote for a saved report, parsed.
Persisted(r) == store[FileName(r.timestamp)].value.fields

\* C30: every report runSecurityScan persists carries, as
\* compliance_summary, the rollup of its complete result list (core, recon
\* and tool results together), and the two rollup builders return the same
\* summary: runScan's for runScan's list, runSecurityScan's for the run's.
C30_RollupDerived ==
  /\ coreReport # NoReport =>
       coreReport.compliance_summary
         = buildComplianceSummaryFromResults(coreReport.results)
  /\ report # NoReport =>
       /\ report.results = allResults
       /\ report.compliance_summary = buildComplianceSummary(report.results)
  /\ \A i \in 1..Len(saved) :
       /\ Persisted(saved[i]).results = Array(saved[i].results)
       /\ Persisted(saved[i]).compliance_summary
            = buildComplianceSummaryFromResults(saved[i].results)
       /\ Persisted(saved[i]).compliance_summary
            = buildComplianceSummary(saved[i].results)

\* A report is persisted whose rollup is not the core results' rollup: a
\* recon or tool result decides a framework's status.
C30_Witness ==
  /\ pc = "alert"
  /\ saved # <<>>
  /\ Len(allResults) > Len(results)
  /\ Persisted(saved[Len(saved)]).compliance_summary
       # coreReport.compliance_summary
  /\ Persisted(saved[Len(saved)]).results = Array(allResults)

====
